---- MODULE Spec2Model ----
(***************************************************************************)
(* Model of src/world/anvil.py: the Sector value type and the RegionFile   *)
(* storage engine (header parse, allocator, sector/timestamp/chunk I/O).   *)
(*                                                                         *)
(* The backing file is modelled by its byte size, its location table       *)
(* (bytes 0..4095), its timestamp table (bytes 4096..8191) and the chunk   *)
(* record that starts on each data page.  Bytes never written read as 0,   *)
(* and a read past the end of the file returns no bytes (an integer 0).    *)
(***************************************************************************)
EXTENDS Integers, Sequences, FiniteSets, TLC

VARIABLES file, rf, last, pa, pb, pres

vars == <<file, rf, last, pa, pb, pres>>

(***************************************************************************)
(* Program constants                                                       *)
(***************************************************************************)
PageSize == 4096
HeaderSize == 8192
SlotCount == 1024
CoordMask == 31
RowStride == 32
OffsetLimit == 16777216
CountLimit == 256

(***************************************************************************)
(* Bounds of the model                                                     *)
(***************************************************************************)
\* slots of the location table whose entries may be non-zero in the model
NSlots == 2
\* longest sectors list the allocator is allowed to build
MaxSectors == 4
\* largest page offset of the small sectors given to the Sector operations
MaxSmallOffset == 4
\* largest page count of the small sectors given to the Sector operations
MaxSmallCount == 3

Slots == 0 .. (NSlots - 1)
AllSlots == 0 .. (SlotCount - 1)

(***************************************************************************)
(* Sector                                                                  *)
(***************************************************************************)
Sector(offset, count) == [offset |-> offset, count |-> count]

\* Python's None where a Sector is expected (an empty index slot)
None == [offset |-> -1, count |-> -1]

End(s) == s.offset + s.count

Size(s) == s.count * PageSize

FileOffset(s) == s.offset * PageSize

Lt(self, other) == (self.offset + self.count) <= other.offset

Gt(self, other) == self.offset >= (other.offset + other.count)

Eq(self, other) == self.offset = other.offset /\ self.count = other.count

IntersectsOneSided(self, other) ==
    self.offset <= other.offset /\ End(self) > other.offset

Intersects(self, other) ==
    IF self.offset <= other.offset /\ End(self) > other.offset THEN TRUE
    ELSE IF other.offset <= self.offset /\ End(other) > self.offset THEN TRUE
    ELSE FALSE

\* int.to_bytes(n, 'big', signed=False) is defined only for 0 <= v < 256^n,
\* given here as the limit
FitsUnsigned(v, limit) == v >= 0 /\ v < limit

ToBytesLittleEndian(s) ==
    IF FitsUnsigned(s.offset, OffsetLimit) /\ FitsUnsigned(s.count, CountLimit)
    THEN << s.offset % 256, (s.offset \div 256) % 256,
            (s.offset \div 65536) % 256, s.count >>
    ELSE << >>

\* Sector.to_bytes: 3 bytes of offset, 1 byte of count; << >> stands for the
\* OverflowError raised when a field does not fit
ToBytes(s) ==
    IF FitsUnsigned(s.offset, OffsetLimit) /\ FitsUnsigned(s.count, CountLimit)
    THEN << (s.offset \div 65536) % 256, (s.offset \div 256) % 256,
            s.offset % 256, s.count >>
    ELSE << >>

\* int.from_bytes(b, 'big', signed=False)
RECURSIVE FromBytes(_)
FromBytes(b) ==
    IF Len(b) = 0 THEN 0
    ELSE FromBytes(SubSeq(b, 1, Len(b) - 1)) * 256 + b[Len(b)]

\* the header test accepting an entry on page 1
DecodeFieldsFromPageOne(offset, sector_count) ==
    IF offset >= 1 /\ sector_count > 0
    THEN [offset |-> offset, count |-> sector_count]
    ELSE [offset |-> -1, count |-> -1]

\* the test of the header loop of __init__ on the two fields of one entry:
\* the sector put in chunks[i], or None
DecodeFields(offset, sector_count) ==
    IF offset >= 2 /\ sector_count > 0
    THEN Sector(offset, sector_count)
    ELSE None

\* the header loop of __init__ on one 4-byte entry: f.read(3), f.read(1)
DecodeEntry(b) ==
    DecodeFields(FromBytes(SubSeq(b, 1, 3)), FromBytes(SubSeq(b, 4, 4)))

(***************************************************************************)
(* bisect                                                                  *)
(***************************************************************************)
\* bisect.bisect_right(a, x, lo, hi) with 0-based lo, hi over the 1-based a
RECURSIVE BisectRight(_, _, _, _)
BisectRight(a, x, lo, hi) ==
    IF lo < hi
    THEN LET mid == (lo + hi) \div 2
         IN IF Lt(x, a[mid + 1])
            THEN BisectRight(a, x, lo, mid)
            ELSE BisectRight(a, x, mid + 1, hi)
    ELSE lo

RECURSIVE BisectLeft(_, _, _, _)
BisectLeft(a, x, lo, hi) ==
    IF lo < hi
    THEN LET mid == (lo + hi) \div 2
         IN IF Lt(a[mid + 1], x)
            THEN BisectLeft(a, x, mid + 1, hi)
            ELSE BisectLeft(a, x, lo, mid)
    ELSE lo

InsertAt(a, i, x) == SubSeq(a, 1, i) \o <<x>> \o SubSeq(a, i + 1, Len(a))

\* an insertion that appends instead of searching for the position
InsortAppend(a, x) == a \o << x >>

Insort(a, x) == InsertAt(a, BisectRight(a, x, 0, Len(a)), x)

(***************************************************************************)
(* Documents and codecs.  Byte strings are sequences of tokens: the        *)
(* serializer wraps a document, a codec wraps a byte string, and the       *)
(* inverse functions unwrap or fail.                                      *)
(***************************************************************************)
Docs == {"d1", "d2"}

NoDoc == "None"

\* bytes the codecs and the parser reject
Garbage == << "error" >>

\* a run of zero bytes (padding, or a hole of the file)
Zeros == << "zeros" >>

\* nbt.dump(tag)
Dump(d) == << "nbt", d >>

\* nbt.load(data)
Load(b) == IF Len(b) = 2 /\ b[1] = "nbt" THEN b[2] ELSE "error"

\* zlib.compress(data)
ZlibCompress(b) == << "zlib" >> \o b

\* zlib.decompress(data): zlib.error on anything that is not a zlib stream
ZlibDecompress(b) == IF Len(b) > 0 /\ b[1] = "zlib" THEN Tail(b) ELSE Garbage

GzipCompress(b) == << "gzip" >> \o b

\* gzip.decompress(data)
GzipDecompress(b) == IF Len(b) > 0 /\ b[1] = "gzip" THEN Tail(b) ELSE Garbage

\* len(chunk_data) for the compressed form of each document: d1 fits one
\* page with its 5-byte record header, d2 needs two
CompressedLen(d) == IF d = "d1" THEN 100 ELSE 4092

\* math.ceil(size_in_bytes / 4096)
CeilPages(size_in_bytes) == (size_in_bytes + (PageSize - 1)) \div PageSize

(***************************************************************************)
(* The backing file                                                        *)
(***************************************************************************)
Entry(offset, count) == [offset |-> offset, count |-> count]

ZeroEntry == Entry(0, 0)

ZeroTable == [i \in Slots |-> ZeroEntry]

ZeroStamps == [i \in Slots |-> 0]

\* the record found at the start of a page nothing was written to
ZeroRecord == [len |-> 0, tag |-> 0, payload |-> << >>]

NoData == [p \in {} |-> ZeroRecord]

MissingPath == [kind |-> "missing", size |-> 0, table |-> ZeroTable,
                ts |-> ZeroStamps, data |-> NoData]

DirectoryPath == [kind |-> "dir", size |-> 0, table |-> ZeroTable,
                  ts |-> ZeroStamps, data |-> NoData]

\* open(filename, 'wb'): the file is truncated to zero length
Truncated == [kind |-> "file", size |-> 0, table |-> ZeroTable,
              ts |-> ZeroStamps, data |-> NoData]

\* os.path.exists(filename)
Exists(f) == f.kind # "missing"

\* os.path.isfile(filename)
IsFile(f) == f.kind = "file"

\* the size test every operation repeats after seeking to the end
InvalidSize(size) == size < HeaderSize \/ (size % PageSize) # 0

\* the 4-byte location entry of a slot as stored in the file
TableAt(f, i) == IF i \in DOMAIN f.table THEN f.table[i] ELSE ZeroEntry

\* the 4-byte timestamp of a slot as stored in the file
StampAt(f, i) == IF i \in DOMAIN f.ts THEN f.ts[i] ELSE 0

\* f.seek(page * 4096); f.read(4); f.read(1) and the bytes that follow.
\* Page 0 and page 1 are the two tables, read as if they held a record.
RecordAt(f, page) ==
    IF page \in DOMAIN f.data THEN f.data[page]
    ELSE IF page = 1 /\ f.size >= HeaderSize
    THEN [len |-> StampAt(f, 0), tag |-> StampAt(f, 1) \div 16777216,
          payload |-> Zeros]
    ELSE ZeroRecord

\* ind = ((offsetX & 31) + (offsetZ & 31) * 32)
SlotOf(offsetX, offsetZ) == (offsetX % (CoordMask + 1)) + (offsetZ % (CoordMask + 1)) * RowStride

(***************************************************************************)
(* Files the engine may be pointed at                                      *)
(***************************************************************************)
\* location entries found in the header of an existing file: empty entries,
\* an entry on a header page, well-formed entries and overlapping ones
EntryChoices == { Entry(0, 0), Entry(0, 1), Entry(1, 1),
                  Entry(2, 1), Entry(3, 2), Entry(2, 3) }

\* sizes of files that pass the size test, and of files that do not
ValidSizes == { HeaderSize, HeaderSize + 3 * PageSize }

InvalidSizes == { 0, PageSize, PageSize + 1, HeaderSize - 1, HeaderSize + 1 }

\* compression tags of the records stored in an existing file
TagChoices == { 1, 2, 3, 7 }

StampChoices == { ZeroStamps, [i \in Slots |-> 1000 + i] }

\* the document stored in a record of the given page count
DocOfCount(count) == IF count = 1 THEN "d1" ELSE "d2"

\* the payload bytes of a stored record: gzip (1), raw (3), zlib (others)
StoredPayload(tag, d) ==
    IF tag = 1 THEN GzipCompress(Dump(d))
    ELSE IF tag = 3 THEN Dump(d)
    ELSE ZlibCompress(Dump(d))

StoredRecord(tag, count) ==
    [len |-> CompressedLen(DocOfCount(count)) + 1, tag |-> tag,
     payload |-> StoredPayload(tag, DocOfCount(count))]

\* slots whose entry points at data pages that lie inside the file
StoredSlots(size, table) ==
    { i \in Slots : table[i].offset >= 2 /\ table[i].count > 0
                    /\ (table[i].offset + table[i].count) * PageSize <= size }

LowestSlotAt(size, table, p) ==
    CHOOSE i \in StoredSlots(size, table) :
        /\ table[i].offset = p
        /\ \A j \in StoredSlots(size, table) : table[j].offset = p => i <= j

StoredData(size, table, tag) ==
    [p \in { table[i].offset : i \in StoredSlots(size, table) } |->
        StoredRecord(tag, table[LowestSlotAt(size, table, p)].count)]

RegularFile(size, table, stamps, tag) ==
    [kind |-> "file", size |-> size, table |-> table, ts |-> stamps,
     data |-> StoredData(size, table, tag)]

\* a freshly created file of two zeroed header pages
FreshFile == [kind |-> "file", size |-> HeaderSize, table |-> ZeroTable,
              ts |-> ZeroStamps, data |-> NoData]

InitFiles ==
    { MissingPath, DirectoryPath }
    \cup { RegularFile(size, ZeroTable, ZeroStamps, 2) : size \in InvalidSizes }
    \cup { RegularFile(size, table, stamps, tag) :
              size \in ValidSizes, table \in [Slots -> EntryChoices],
              stamps \in StampChoices, tag \in TagChoices }

(***************************************************************************)
(* RegionFile: the in-memory object                                        *)
(***************************************************************************)
EmptyChunks == [i \in Slots |-> None]

\* no RegionFile has been constructed yet
NoRegionFile == [live |-> FALSE, chunks |-> EmptyChunks,
                 hasSectors |-> FALSE, sectors |-> << >>]

\* the object __init__ leaves behind when the path is not a regular file:
\* chunks is the untouched object array, sectors is None
Unparsed == [live |-> TRUE, chunks |-> EmptyChunks,
             hasSectors |-> FALSE, sectors |-> << >>]

\* self.chunks[index]
ChunkAt(r, index) == IF index \in DOMAIN r.chunks THEN r.chunks[index] ELSE None

\* the header loop filling the index without inserting into sectors
RECURSIVE ParseSectorsNoInsert(_, _, _)
ParseSectorsNoInsert(f, i, acc) ==
    IF i \notin Slots THEN acc ELSE ParseSectorsNoInsert(f, i + 1, acc)

\* the header loop of __init__: entries i .. NSlots-1 folded into sectors
\* (the slots above NSlots hold zero entries and add nothing)
RECURSIVE ParseSectors(_, _, _)
ParseSectors(f, i, acc) ==
    IF i \notin Slots THEN acc
    ELSE LET sector == DecodeFields(TableAt(f, i).offset, TableAt(f, i).count)
         IN IF sector # None
            THEN ParseSectors(f, i + 1, Insort(acc, sector))
            ELSE ParseSectors(f, i + 1, acc)

ParseChunks(f) ==
    [i \in Slots |-> DecodeFields(TableAt(f, i).offset, TableAt(f, i).count)]

\* __init__ seeding sectors with a one-page header sector
ParsedOnePageHeader(f) ==
    [live |-> TRUE, chunks |-> ParseChunks(f), hasSectors |-> TRUE,
     sectors |-> ParseSectors(f, 0, << Sector(0, 1) >>)]

\* the object a successful __init__ builds from a regular file
Parsed(f) == [live |-> TRUE, chunks |-> ParseChunks(f), hasSectors |-> TRUE,
              sectors |-> ParseSectors(f, 0, << Sector(0, 2) >>)]

\* outcome of __init__: the exception raised, or "ok"
OpenOutcome(f) ==
    IF ~Exists(f) THEN "FileNotFoundError"
    ELSE IF ~IsFile(f) THEN "ok"
    ELSE IF InvalidSize(f.size) THEN "Exception"
    ELSE "ok"

(***************************************************************************)
(* get_free                                                                *)
(***************************************************************************)
\* get_free with a gap test that accepts a gap one page too small
RECURSIVE ScanGapsLoose(_, _, _)
ScanGapsLoose(sectors, i, sector_count) ==
    IF i > Len(sectors) - 1
    THEN Sector(End(sectors[Len(sectors)]), sector_count)
    ELSE IF sectors[i + 1].offset - End(sectors[i]) >= sector_count - 1
         THEN Sector(End(sectors[i]), sector_count)
         ELSE ScanGapsLoose(sectors, i + 1, sector_count)

\* the loop of get_free from the pair (sectors[i], sectors[i+1]) on, then
\* the append after the last sector
RECURSIVE ScanGaps(_, _, _)
ScanGaps(sectors, i, sector_count) ==
    IF i > Len(sectors) - 1
    THEN Sector(End(sectors[Len(sectors)]), sector_count)
    ELSE IF sectors[i + 1].offset - End(sectors[i]) >= sector_count
         THEN Sector(End(sectors[i]), sector_count)
         ELSE ScanGaps(sectors, i + 1, sector_count)

\* get_free that never looks for a gap and always appends
GetFreeSectorAppendOnly(sectors, size_in_bytes) ==
    Sector(End(sectors[Len(sectors)]), CeilPages(size_in_bytes))

\* the sector get_free(size_in_bytes) returns
GetFreeSector(sectors, size_in_bytes) ==
    ScanGaps(sectors, 1, CeilPages(size_in_bytes))

(***************************************************************************)
(* Reads: has_chunk, read_chunk_raw, read_chunk_tag, read_timestamp        *)
(***************************************************************************)
\* what a reader returns for Python's None
NoBytes == << "None" >>

\* has_chunk: the exception raised or "ok", and the value returned
HasChunkOutcome(f) ==
    IF ~Exists(f) THEN "FileNotFoundError"
    ELSE IF ~IsFile(f) THEN "IsADirectoryError"
    ELSE "ok"

HasChunk(f, offsetX, offsetZ) ==
    HasChunkOutcome(f) = "ok" /\ TableAt(f, SlotOf(offsetX, offsetZ)).offset # 0

\* the bytes the codec of the record's tag yields; NoBytes when the tag is
\* none of 1, 2, 3 and the method falls off its end
Decoded(rec) ==
    IF rec.tag = 2 THEN ZlibDecompress(rec.payload)
    ELSE IF rec.tag = 1 THEN GzipDecompress(rec.payload)
    ELSE IF rec.tag = 3 THEN rec.payload
    ELSE NoBytes

\* read_chunk_raw: [out, bytes]
ReadChunkRaw(f, offsetX, offsetZ) ==
    LET ind == SlotOf(offsetX, offsetZ)
        chunk_offset == TableAt(f, ind).offset
        rec == RecordAt(f, chunk_offset)
    IN IF ~Exists(f) THEN [out |-> "FileNotFoundError", bytes |-> NoBytes]
       ELSE IF ~IsFile(f) THEN [out |-> "IsADirectoryError", bytes |-> NoBytes]
       ELSE IF chunk_offset = 0 THEN [out |-> "ok", bytes |-> NoBytes]
       ELSE IF Decoded(rec) = Garbage
            THEN [out |-> "CodecError", bytes |-> NoBytes]
            ELSE [out |-> "ok", bytes |-> Decoded(rec)]

\* read_chunk_tag: [out, doc]
ReadChunkTag(f, offsetX, offsetZ) ==
    LET raw == ReadChunkRaw(f, offsetX, offsetZ)
    IN IF raw.out # "ok" THEN [out |-> raw.out, doc |-> NoDoc]
       ELSE IF raw.bytes = NoBytes THEN [out |-> "ok", doc |-> NoDoc]
       ELSE IF Load(raw.bytes) = "error"
            THEN [out |-> "ParseError", doc |-> NoDoc]
            ELSE [out |-> "ok", doc |-> Load(raw.bytes)]

\* read_timestamp: [out, stamp]; stamp -1 stands for None
ReadTimestamp(f, index) ==
    IF ~Exists(f) THEN [out |-> "FileNotFoundError", stamp |-> -1]
    ELSE IF ~IsFile(f) THEN [out |-> "ok", stamp |-> -1]
    ELSE IF InvalidSize(f.size) THEN [out |-> "Exception", stamp |-> -1]
    ELSE [out |-> "ok", stamp |-> StampAt(f, index)]

(***************************************************************************)
(* Inputs of the operations                                                *)
(***************************************************************************)
\* chunk coordinates: one per modelled slot, and one that needs the masks
Coords == { << i, 0 >> : i \in Slots } \cup { << 33, 32 >> }

\* slot indices passed directly, with two outside [0, 1024)
IndexChoices == Slots \cup { -1, SlotCount }

SizeChoices == { 0, PageSize, PageSize + 1 }

SectorChoices == { Sector(2, 1), Sector(5, 2) }

\* values of the clock, all later than the stamps of an existing file
NowChoices == { 2000, 2001 }

\* the record of the most recent call: its arguments, the entry the slot
\* held in memory when it was made, its outcome and what it returned
NoCall ==
    [op |-> "none", out |-> "ok", x |-> 0, z |-> 0, slot |-> -1, size |-> -1,
     insert |-> FALSE, zero |-> FALSE, sector |-> None, doc |-> NoDoc,
     now |-> -1, held |-> None, retSector |-> None, retDoc |-> NoDoc,
     retBytes |-> NoBytes, retBool |-> FALSE, retInt |-> -1]

Call(op) == [NoCall EXCEPT !.op = op]

\* a pair of sectors handed to the Sector operations
SmallSectors ==
    { Sector(o, c) : o \in 0 .. MaxSmallOffset, c \in 0 .. MaxSmallCount }

\* sectors at the edges of the 3-byte and 1-byte fields of an entry
EdgeSectors ==
    { Sector(o, c) : o \in { 255, 256, 65535, 65536, OffsetLimit - 1, OffsetLimit },
                     c \in { 1, CountLimit - 1, CountLimit } }

SectorInputs == SmallSectors \cup EdgeSectors

\* the result of the most recent Sector operation
NoResult == [op |-> "none", out |-> "ok", bool |-> FALSE, bytes |-> << >>,
             sector |-> None]

(***************************************************************************)
(* Initial state                                                           *)
(***************************************************************************)
Init ==
    /\ file \in InitFiles
    /\ rf = NoRegionFile
    /\ last = NoCall
    /\ pa = None
    /\ pb = None
    /\ pres = NoResult

(***************************************************************************)
(* RegionFile operations                                                   *)
(***************************************************************************)
\* RegionFile(filename).  A constructor that raises produces no object; the
\* caller keeps whatever object it had.
Open ==
    /\ last' = [Call("open") EXCEPT !.out = OpenOutcome(file)]
    /\ rf' = IF OpenOutcome(file) # "ok" THEN rf
             ELSE IF ~IsFile(file) THEN Unparsed
             ELSE Parsed(file)
    /\ UNCHANGED << file, pa, pb, pres >>

\* get_free(size_in_bytes, insert): len(None) raises when sectors is None
GetFree(size_in_bytes, insert) ==
    /\ rf.live
    /\ (rf.hasSectors /\ insert) => Len(rf.sectors) < MaxSectors
    /\ LET call == [Call("get_free") EXCEPT !.size = size_in_bytes,
                                            !.insert = insert]
           sector == GetFreeSector(rf.sectors, size_in_bytes)
       IN IF ~rf.hasSectors
          THEN /\ last' = [call EXCEPT !.out = "TypeError"]
               /\ rf' = rf
          ELSE /\ last' = [call EXCEPT !.retSector = sector]
               /\ rf' = IF insert
                        THEN [rf EXCEPT !.sectors = Insort(rf.sectors, sector)]
                        ELSE rf
    /\ UNCHANGED << file, pa, pb, pres >>

\* write_sector(sector, index): mode 'wb' truncates the file, so the size
\* test that follows always fails and nothing after it runs
WriteSector(sector, index) ==
    /\ rf.live
    /\ LET call == [Call("write_sector") EXCEPT !.sector = sector,
                        !.slot = index, !.held = ChunkAt(rf, index)]
       IN IF ~Exists(file)
          THEN /\ last' = [call EXCEPT !.out = "FileNotFoundError"]
               /\ file' = file
          ELSE IF ~IsFile(file)
          THEN /\ last' = call
               /\ file' = file
          ELSE /\ last' = [call EXCEPT !.out = "Exception"]
               /\ file' = Truncated
    /\ UNCHANGED << rf, pa, pb, pres >>

\* delete_sector(index, zero_data): `sect != None` calls Sector.__eq__ with
\* None, which raises AttributeError; an index outside [0, 1024) skips the
\* whole body
DeleteSector(index, zero_data) ==
    /\ rf.live
    /\ LET call == [Call("delete_sector") EXCEPT !.slot = index,
                        !.zero = zero_data, !.held = ChunkAt(rf, index)]
       IN IF ~Exists(file)
          THEN last' = [call EXCEPT !.out = "FileNotFoundError"]
          ELSE IF 0 <= index /\ index < SlotCount
          THEN IF ChunkAt(rf, index) # None
               THEN last' = [call EXCEPT !.out = "AttributeError"]
               ELSE last' = call
          ELSE last' = call
    /\ UNCHANGED << file, rf, pa, pb, pres >>

\* write_timestamp(index): truncates like write_sector and raises
WriteTimestamp(index, now) ==
    /\ rf.live
    /\ LET call == [Call("write_timestamp") EXCEPT !.slot = index, !.now = now]
       IN IF ~Exists(file)
          THEN /\ last' = [call EXCEPT !.out = "FileNotFoundError"]
               /\ file' = file
          ELSE IF ~IsFile(file)
          THEN /\ last' = call
               /\ file' = file
          ELSE /\ last' = [call EXCEPT !.out = "Exception"]
               /\ file' = Truncated
    /\ UNCHANGED << rf, pa, pb, pres >>

\* read_timestamp(index)
ReadTimestampCall(index) ==
    /\ rf.live
    /\ last' = [Call("read_timestamp") EXCEPT !.slot = index,
                    !.out = ReadTimestamp(file, index).out,
                    !.retInt = ReadTimestamp(file, index).stamp]
    /\ UNCHANGED << file, rf, pa, pb, pres >>

\* write_chunk_tag(offsetX, offsetZ, chunk_tag).  On an occupied slot the
\* test `self.chunks[ind] != None` raises AttributeError before anything is
\* released.  On an empty slot a sector is allocated and inserted, the file
\* is truncated by mode 'wb', and the length, the tag and the padding are
\* written at the sector; the compressed bytes, the table entry, the index
\* and the timestamp are not written.
WriteChunkTag(offsetX, offsetZ, chunk_tag) ==
    /\ rf.live
    /\ LET chunk_data == ZlibCompress(Dump(chunk_tag))
           data_len == CompressedLen(chunk_tag)
           ind == SlotOf(offsetX, offsetZ)
           call == [Call("write_chunk_tag") EXCEPT !.x = offsetX,
                        !.z = offsetZ, !.slot = ind, !.doc = chunk_tag,
                        !.held = ChunkAt(rf, ind)]
           free == GetFreeSector(rf.sectors, data_len + 5)
           size == free.count * PageSize
           data_size == data_len + 5
           pad_bytes == size - data_size
           written == [len |-> data_len + 1, tag |-> 2,
                       payload |-> IF pad_bytes > 0 THEN Zeros ELSE << >>]
       IN IF ~Exists(file)
          THEN /\ last' = [call EXCEPT !.out = "FileNotFoundError"]
               /\ UNCHANGED << file, rf >>
          ELSE IF ChunkAt(rf, ind) # None
          THEN /\ last' = [call EXCEPT !.out = "AttributeError"]
               /\ UNCHANGED << file, rf >>
          ELSE IF ~rf.hasSectors
          THEN /\ last' = [call EXCEPT !.out = "TypeError"]
               /\ UNCHANGED << file, rf >>
          ELSE /\ Len(rf.sectors) < MaxSectors
               /\ rf' = [rf EXCEPT !.sectors = Insort(rf.sectors, free)]
               /\ IF ~IsFile(file)
                  THEN /\ last' = [call EXCEPT !.out = "IsADirectoryError",
                                               !.retSector = free]
                       /\ file' = file
                  ELSE /\ last' = [call EXCEPT !.retSector = free]
                       /\ file' = [kind |-> "file",
                                   size |-> free.offset * PageSize + 4 + 1 + pad_bytes,
                                   table |-> ZeroTable, ts |-> ZeroStamps,
                                   data |-> (free.offset :> written)]
    /\ UNCHANGED << pa, pb, pres >>

\* read_chunk_tag(offsetX, offsetZ)
ReadChunkTagCall(offsetX, offsetZ) ==
    /\ rf.live
    /\ last' = [Call("read_chunk_tag") EXCEPT !.x = offsetX, !.z = offsetZ,
                    !.slot = SlotOf(offsetX, offsetZ),
                    !.held = ChunkAt(rf, SlotOf(offsetX, offsetZ)),
                    !.out = ReadChunkTag(file, offsetX, offsetZ).out,
                    !.retDoc = ReadChunkTag(file, offsetX, offsetZ).doc]
    /\ UNCHANGED << file, rf, pa, pb, pres >>

\* read_chunk_raw(offsetX, offsetZ)
ReadChunkRawCall(offsetX, offsetZ) ==
    /\ rf.live
    /\ last' = [Call("read_chunk_raw") EXCEPT !.x = offsetX, !.z = offsetZ,
                    !.slot = SlotOf(offsetX, offsetZ),
                    !.held = ChunkAt(rf, SlotOf(offsetX, offsetZ)),
                    !.out = ReadChunkRaw(file, offsetX, offsetZ).out,
                    !.retBytes = ReadChunkRaw(file, offsetX, offsetZ).bytes]
    /\ UNCHANGED << file, rf, pa, pb, pres >>

\* has_chunk(offsetX, offsetZ)
HasChunkCall(offsetX, offsetZ) ==
    /\ rf.live
    /\ last' = [Call("has_chunk") EXCEPT !.x = offsetX, !.z = offsetZ,
                    !.slot = SlotOf(offsetX, offsetZ),
                    !.held = ChunkAt(rf, SlotOf(offsetX, offsetZ)),
                    !.out = HasChunkOutcome(file),
                    !.retBool = HasChunk(file, offsetX, offsetZ)]
    /\ UNCHANGED << file, rf, pa, pb, pres >>

Next ==
    \/ Open
    \/ \E size_in_bytes \in SizeChoices, insert \in BOOLEAN :
          GetFree(size_in_bytes, insert)
    \/ \E sector \in SectorChoices, index \in Slots : WriteSector(sector, index)
    \/ \E index \in IndexChoices, zero_data \in BOOLEAN :
          DeleteSector(index, zero_data)
    \/ \E index \in Slots, now \in NowChoices : WriteTimestamp(index, now)
    \/ \E index \in Slots : ReadTimestampCall(index)
    \/ \E c \in Coords, d \in Docs : WriteChunkTag(c[1], c[2], d)
    \/ \E c \in Coords : ReadChunkTagCall(c[1], c[2])
    \/ \E c \in Coords : ReadChunkRawCall(c[1], c[2])
    \/ \E c \in Coords : HasChunkCall(c[1], c[2])

Spec == Init /\ [][Next]_vars

(***************************************************************************)
(* The Sector operations applied to given sectors                          *)
(***************************************************************************)
InitSector ==
    /\ file = FreshFile
    /\ rf = NoRegionFile
    /\ last = NoCall
    /\ pa \in SectorInputs
    /\ pb \in SectorInputs
    /\ pres = NoResult

\* pa.intersects(pb)
ApplyIntersects ==
    /\ pres' = [NoResult EXCEPT !.op = "intersects", !.bool = Intersects(pa, pb)]
    /\ UNCHANGED << file, rf, last, pa, pb >>

\* pa < pb
ApplyLt ==
    /\ pres' = [NoResult EXCEPT !.op = "lt", !.bool = Lt(pa, pb)]
    /\ UNCHANGED << file, rf, last, pa, pb >>

\* pa.to_bytes()
ApplyToBytes ==
    /\ pres' = [NoResult EXCEPT !.op = "to_bytes", !.bytes = ToBytes(pa),
                   !.out = IF ToBytes(pa) = << >> THEN "OverflowError" ELSE "ok"]
    /\ UNCHANGED << file, rf, last, pa, pb >>

\* the header loop applied to the four bytes to_bytes produced
ApplyDecode ==
    /\ pres.op = "to_bytes"
    /\ pres.out = "ok"
    /\ pres' = [NoResult EXCEPT !.op = "decode", !.bytes = pres.bytes,
                   !.sector = DecodeEntry(pres.bytes)]
    /\ UNCHANGED << file, rf, last, pa, pb >>

NextSector ==
    \/ ApplyIntersects
    \/ ApplyLt
    \/ ApplyToBytes
    \/ ApplyDecode

SpecSector == InitSector /\ [][NextSector]_vars

(***************************************************************************)
(* Vocabulary of the properties                                            *)
(***************************************************************************)
\* the pages of a sector: the half-open range [offset, end)
Pages(s) == s.offset .. (End(s) - 1)

\* the two page ranges have at least one page in common
SharePage(a, b) == Pages(a) \cap Pages(b) # {}

\* the list is ordered and no two of its entries share a page
Disjoint(sectors) ==
    \A i, j \in 1 .. Len(sectors) : i < j => End(sectors[i]) <= sectors[j].offset

\* the coordinates (x, z) in [0, 32) x [0, 32) of a slot
SlotX(slot) == slot % RowStride

SlotZ(slot) == slot \div RowStride

\* the sectors of the list that the index of the object does not refer to
\* and that are not the header sector: the allocations made so far
Allocated(r) ==
    { k \in 2 .. Len(r.sectors) :
        \A i \in Slots : r.chunks[i] # r.sectors[k] }

WroteChunk == last.op = "write_chunk_tag" /\ last.out = "ok"

(***************************************************************************)
(* C1  Round trip                                                          *)
(***************************************************************************)
\* C1: on a region file opened from a file of valid size, write_chunk_tag(x,
\* z, d) returns normally whether the slot was empty or occupied, and then
\* read_chunk_tag(x, z) returns d and read_chunk_raw(x, z) returns the
\* serialized bytes of d.
C1_RoundTrip ==
    (last.op = "write_chunk_tag" /\ rf.hasSectors) =>
        /\ last.out = "ok"
        /\ ReadChunkTag(file, last.x, last.z) = [out |-> "ok", doc |-> last.doc]
        /\ ReadChunkRaw(file, last.x, last.z) =
              [out |-> "ok", bytes |-> Dump(last.doc)]

(***************************************************************************)
(* C2  Index, table entry and timestamp after a write                      *)
(***************************************************************************)
\* C2: after write_chunk_tag(x, z, d) returns, chunks[slot] is the sector
\* allocated for the write, the table entry of the slot in the file encodes
\* that sector, has_chunk(x, z) is true and the timestamp of the slot holds
\* a current clock value.
C2_WriteUpdatesIndex ==
    WroteChunk =>
        /\ ChunkAt(rf, last.slot) = last.retSector
        /\ TableAt(file, last.slot) =
              Entry(last.retSector.offset, last.retSector.count)
        /\ HasChunk(file, last.x, last.z)
        /\ StampAt(file, last.slot) \in NowChoices

(***************************************************************************)
(* C3  Release before allocation                                           *)
(***************************************************************************)
\* C3: a write to a slot that holds a sector S returns normally having
\* released S before it allocated, so S is no longer in sectors unless the
\* allocation of that same write was placed on its pages; and after
\* delete_sector on a slot that held S the slot is empty, S is gone from
\* sectors and get_free(S.count pages), when no lower gap fits, returns a
\* sector at S.offset.
C3_ReleaseBeforeAllocate ==
    /\ (last.op = "write_chunk_tag" /\ last.held # None) =>
          /\ last.out = "ok"
          /\ \A k \in 1 .. Len(rf.sectors) :
                rf.sectors[k] = last.held => last.retSector = last.held
    /\ (last.op = "delete_sector" /\ last.held # None) =>
          /\ last.out = "ok"
          /\ ChunkAt(rf, last.slot) = None
          /\ (\A o \in 2 .. (last.held.offset - 1) :
                \E k \in 1 .. Len(rf.sectors) :
                    SharePage(Sector(o, last.held.count), rf.sectors[k]))
             => GetFreeSector(rf.sectors, Size(last.held)).offset = last.held.offset

(***************************************************************************)
(* C4  Allocations do not overlap                                          *)
(***************************************************************************)
\* the step is a get_free call that returned a sector and inserted it
Allocates == last'.op = "get_free" /\ last'.out = "ok" /\ last'.insert

\* the sector returned by the step shares no page with a sector that was in
\* sectors before it, nor with the sector the previous inserting get_free
\* call returned
FreshPages ==
    /\ \A k \in 1 .. Len(rf.sectors) : ~SharePage(last'.retSector, rf.sectors[k])
    /\ (last.op = "get_free" /\ last.out = "ok" /\ last.insert)
          => ~SharePage(last.retSector, last'.retSector)

\* C4 as stated: for two inserting get_free calls A then B on the same
\* RegionFile with no deletion in between, A and B do not intersect, and
\* neither intersects a sector that was already in sectors, the header
\* sector Sector(0,2) included.
C4_Original == [][Allocates => FreshPages]_vars

\* C4 amended: the same, provided that when each call is made the sectors
\* list is ordered by offset and no two of its entries share a page (as it
\* is after opening a file whose header entries do not overlap).
C4_NoOverlap == [][(Allocates /\ Disjoint(rf.sectors)) => FreshPages]_vars

\* an inserting get_free call that returned pages, made on an ordered
\* overlap-free list that already held an earlier allocation and a chunk
\* sector read from the header
C4_Witness ==
    /\ last.op = "get_free" /\ last.out = "ok" /\ last.insert
    /\ last.retSector.count > 0
    /\ Disjoint(rf.sectors)
    /\ \E k \in Allocated(rf) :
          rf.sectors[k] # last.retSector /\ rf.sectors[k].count > 0
    /\ \E i \in Slots : rf.chunks[i] # None

(***************************************************************************)
(* C5  First fit                                                           *)
(***************************************************************************)
\* count pages starting at page o share no page with a sector of the list
Fits(sectors, o, count) ==
    \A k \in 1 .. Len(sectors) : ~SharePage(Sector(o, count), sectors[k])

\* no pair of neighbours of the list is far enough apart for count pages
NoGap(sectors, count) ==
    \A i \in 1 .. (Len(sectors) - 1) :
        sectors[i + 1].offset - End(sectors[i]) < count

\* the step is a get_free call that returned a sector
Returns == last'.op = "get_free" /\ last'.out = "ok"

\* the sector returned by the step has the page count of the request, sits
\* at the smallest offset >= 2 where that many pages are free, and sits at
\* the end of the last sector of the list when no gap is large enough
FirstFit ==
    LET got == last'.retSector
    IN /\ got.count = CeilPages(last'.size)
       /\ got.offset >= 2
       /\ Fits(rf.sectors, got.offset, got.count)
       /\ \A o \in 2 .. (got.offset - 1) : ~Fits(rf.sectors, o, got.count)
       /\ NoGap(rf.sectors, got.count)
             => got.offset = End(rf.sectors[Len(rf.sectors)])

\* C5 as stated: get_free(size) returns a sector of ceil(size/4096) pages
\* at the smallest page offset >= 2 where that many consecutive pages
\* overlap no sector of sectors, and at the end of the last sector of the
\* list when no gap between sectors is large enough.
C5_Original == [][Returns => FirstFit]_vars

\* C5 amended: the same, provided that when the call is made the sectors
\* list is ordered by offset and no two of its entries share a page.
C5_FirstFit == [][(Returns /\ Disjoint(rf.sectors)) => FirstFit]_vars

\* a get_free call that was placed in a gap below a chunk sector, and the
\* list still ordered and overlap-free
C5_Witness ==
    /\ last.op = "get_free" /\ last.out = "ok" /\ last.insert
    /\ last.retSector = Sector(2, 1)
    /\ Disjoint(rf.sectors)
    /\ \E k \in 1 .. Len(rf.sectors) : rf.sectors[k] = Sector(3, 2)

(***************************************************************************)
(* C6  Deleting twice                                                      *)
(***************************************************************************)
\* C6: for a slot in [0, 1024), occupied or empty, has_chunk is false for
\* the slot after every delete_sector(slot) call, and a delete_sector(slot)
\* call that directly follows another one on the same slot raises nothing
\* and changes neither the index, sectors nor the file.
C6_DeleteTwice ==
    [][(last'.op = "delete_sector" /\ last'.slot \in AllSlots) =>
          /\ ~HasChunk(file', SlotX(last'.slot), SlotZ(last'.slot))
          /\ (last.op = "delete_sector" /\ last.slot = last'.slot) =>
                (last'.out = "ok" /\ rf' = rf /\ file' = file)]_vars

(***************************************************************************)
(* C7  Validation on open                                                  *)
(***************************************************************************)
\* C7: opening a path raises, and yields no object, exactly when the path
\* is not a regular file or its size is below 8192 or not a multiple of
\* 4096.
C7_OpenValidates ==
    last.op = "open" =>
        (last.out # "ok" <=>
            (file.kind # "file" \/ file.size < HeaderSize
             \/ file.size % PageSize # 0))

(***************************************************************************)
(* C8  Fresh file                                                          *)
(***************************************************************************)
\* C8: once a fresh 8192-byte file of zero bytes is opened, has_chunk is
\* false for all 1024 slots, every index entry is empty and sectors is
\* exactly [Sector(0,2)]; get_free(4096) called next returns Sector(2,1).
C8_FreshFile ==
    [][/\ (last'.op = "open" /\ file' = FreshFile) =>
            /\ last'.out = "ok"
            /\ \A i \in AllSlots :
                  /\ ~HasChunk(file', SlotX(i), SlotZ(i))
                  /\ ChunkAt(rf', i) = None
            /\ rf'.hasSectors
            /\ rf'.sectors = << Sector(0, 2) >>
       /\ (last.op = "open" /\ file = FreshFile
           /\ last'.op = "get_free" /\ last'.size = PageSize) =>
            (last'.out = "ok" /\ last'.retSector = Sector(2, 1))]_vars

\* get_free(4096) has returned and inserted on the object opened from the
\* fresh file, whose list held the header sector alone
C8_Witness ==
    /\ file = FreshFile
    /\ last.op = "get_free" /\ last.size = PageSize /\ last.insert
    /\ last.out = "ok"
    /\ \A i \in Slots : rf.chunks[i] = None
    /\ Len(rf.sectors) = 2 /\ rf.sectors[1] = Sector(0, 2)

(***************************************************************************)
(* C9  Entry encoding round trip                                           *)
(***************************************************************************)
\* C9 as stated: for offset < 2^24 and 0 < count < 256, the entry that
\* to_bytes makes of Sector(offset, count), decoded as the header loop of
\* __init__ decodes it, is a sector equal to Sector(offset, count).
C9_Original ==
    (pres.op = "decode" /\ pa.offset < OffsetLimit
     /\ 0 < pa.count /\ pa.count < CountLimit) =>
        (pres.sector # None /\ Eq(pres.sector, pa))

\* C9 amended: the same for 2 <= offset < 2^24; an entry whose offset is 0
\* or 1 decodes to an empty slot.
C9_EncodeDecode ==
    (pres.op = "decode" /\ 2 <= pa.offset /\ pa.offset < OffsetLimit
     /\ 0 < pa.count /\ pa.count < CountLimit) =>
        (pres.sector # None /\ Eq(pres.sector, pa))

\* an entry whose offset needs all three bytes and whose count is the
\* largest one byte holds has been encoded and decoded
C9_Witness ==
    /\ pres.op = "decode"
    /\ pa = Sector(OffsetLimit - 1, CountLimit - 1)
    /\ pres.bytes = << 255, 255, 255, 255 >>

(***************************************************************************)
(* C10  intersects                                                         *)
(***************************************************************************)
\* C10 as stated: for all sectors a and b, a.intersects(b) is true iff the
\* page ranges [a.offset, a.end) and [b.offset, b.end) share a page, and
\* a.intersects(b) = b.intersects(a).
C10_Original ==
    pres.op = "intersects" =>
        /\ pres.bool <=> SharePage(pa, pb)
        /\ pres.bool <=> Intersects(pb, pa)

\* C10 amended: a.intersects(b) = b.intersects(a) for all sectors a and b,
\* and a.intersects(b) is true iff the two page ranges share a page when
\* both sectors have at least one page.
C10_Intersects ==
    pres.op = "intersects" =>
        /\ (pa.count > 0 /\ pb.count > 0) => (pres.bool <=> SharePage(pa, pb))
        /\ pres.bool <=> Intersects(pb, pa)

\* intersects has answered true for a sector that starts inside another
\* one and ends after it
C10_Witness ==
    /\ pres.op = "intersects" /\ pres.bool
    /\ pb.offset < pa.offset /\ pa.offset < End(pb) /\ End(pb) < End(pa)

(***************************************************************************)
(* C11  Timestamp round trip                                               *)
(***************************************************************************)
\* C11: on a regular file of valid size, write_timestamp(slot) for a slot
\* in [0, 1024) returns normally and read_timestamp(slot) then returns the
\* clock value that was written; on the fresh file, where no timestamp was
\* ever written, read_timestamp returns 0.
C11_TimestampRoundTrip ==
    [][/\ (last'.op = "write_timestamp" /\ last'.slot \in AllSlots
           /\ IsFile(file) /\ ~InvalidSize(file.size)) =>
            /\ last'.out = "ok"
            /\ ReadTimestamp(file', last'.slot) =
                  [out |-> "ok", stamp |-> last'.now]
       /\ (last'.op = "read_timestamp" /\ file = FreshFile) =>
            (last'.out = "ok" /\ last'.retInt = 0)]_vars

(***************************************************************************)
(* C12  Slot range of delete_sector                                        *)
(***************************************************************************)
\* C12: delete_sector with a slot index outside [0, 1024) raises an error
\* instead of returning normally, and leaves the index, sectors and the
\* file unchanged.
C12_DeleteOutOfRange ==
    [][(last'.op = "delete_sector" /\ last'.slot \notin AllSlots) =>
          (last'.out # "ok" /\ rf' = rf /\ file' = file)]_vars

(***************************************************************************)
(* C13  Unknown compression tag                                            *)
(***************************************************************************)
\* the compression tag of the record the table entry of the slot points at
StoredTag(f, slot) == RecordAt(f, TableAt(f, slot).offset).tag

\* C13: read_chunk_raw and read_chunk_tag on a slot whose table entry is
\* not absent and whose stored compression tag is not 1, 2 or 3 raise an
\* error; they do not return what they return for an absent chunk.
C13_UnknownTagFails ==
    (/\ last.op \in { "read_chunk_raw", "read_chunk_tag" }
     /\ IsFile(file)
     /\ TableAt(file, last.slot).offset # 0
     /\ StoredTag(file, last.slot) \notin { 1, 2, 3 }) =>
        /\ last.out # "ok"
        /\ ~(last.retBytes = NoBytes /\ last.retDoc = NoDoc)

(***************************************************************************)
(* C14  Index entries are in sectors                                       *)
(***************************************************************************)
\* C14: in every state reached by opening a file of valid size and then
\* calling write_chunk_tag, write_sector, delete_sector and get_free in any
\* order, every non-empty index entry chunks[i] has an equal sector (same
\* offset and count) in sectors.
C14_IndexInSectors ==
    rf.hasSectors =>
        \A i \in Slots :
            rf.chunks[i] # None =>
                \E k \in 1 .. Len(rf.sectors) : Eq(rf.sectors[k], rf.chunks[i])

\* an object with two occupied index slots on which an allocation was
\* inserted and a write was then attempted
C14_Witness ==
    /\ rf.hasSectors
    /\ \A i \in Slots : rf.chunks[i] # None
    /\ Len(rf.sectors) > NSlots + 1
    /\ last.op \in { "write_chunk_tag", "write_sector", "delete_sector" }

(***************************************************************************)
(* C15  No leaked space                                                    *)
(***************************************************************************)
\* the number of entries of the list equal to s
Entries(sectors, s) == Cardinality({ k \in 1 .. Len(sectors) : sectors[k] = s })

\* the number of index slots that refer to s
References(r, s) == Cardinality({ i \in Slots : r.chunks[i] = s })

\* C15: whenever write_chunk_tag or delete_sector has returned, every
\* sector of sectors other than the header sector Sector(0,2) is referred
\* to by as many index slots as it has entries in sectors.
C15_NoLeak ==
    (last.op \in { "write_chunk_tag", "delete_sector" } /\ last.out = "ok"
     /\ rf.hasSectors) =>
        \A k \in 1 .. Len(rf.sectors) :
            rf.sectors[k] # Sector(0, 2) =>
                Entries(rf.sectors, rf.sectors[k]) = References(rf, rf.sectors[k])

(***************************************************************************)
(* C16  Order of sectors                                                   *)
(***************************************************************************)
\* sectors starts with the header sector
HeaderFirst == rf.sectors[1] = Sector(0, 2)

\* sectors is ordered by non-decreasing offset
OffsetOrdered ==
    \A k \in 1 .. (Len(rf.sectors) - 1) :
        rf.sectors[k].offset <= rf.sectors[k + 1].offset

\* no two index entries of the object share a page
IndexDisjoint ==
    \A i, j \in Slots :
        (i # j /\ rf.chunks[i] # None /\ rf.chunks[j] # None)
            => ~SharePage(rf.chunks[i], rf.chunks[j])

\* C16 as stated: after opening any file of valid size, whatever its header
\* entries are, and after any sequence of get_free, write and delete calls,
\* sectors[0] is Sector(0,2) and sectors is ordered by non-decreasing
\* offset.
C16_Original == rf.hasSectors => (HeaderFirst /\ OffsetOrdered)

\* C16 amended: sectors[0] is Sector(0,2) whatever the header entries are,
\* and sectors is ordered by non-decreasing offset provided no two header
\* entries that were read into the index share a page.
C16_Sorted ==
    rf.hasSectors => (HeaderFirst /\ (IndexDisjoint => OffsetOrdered))

\* an allocation was placed in the gap below a chunk sector read from the
\* header, and a call on the index followed
C16_Witness ==
    /\ rf.hasSectors /\ IndexDisjoint
    /\ Len(rf.sectors) = 3
    /\ rf.sectors[2] = Sector(2, 1) /\ rf.sectors[3] = Sector(3, 2)
    /\ \E i \in Slots : rf.chunks[i] = Sector(3, 2)
    /\ last.op = "delete_sector"

(***************************************************************************)
(* C17  Header entries on open                                             *)
(***************************************************************************)
\* the object was just built from a regular file
Opened == last.op = "open" /\ last.out = "ok" /\ IsFile(file)

\* the entry of the slot was read into the index and into sectors
Populated(i) ==
    /\ rf.chunks[i] = Sector(TableAt(file, i).offset, TableAt(file, i).count)
    /\ \E k \in 1 .. Len(rf.sectors) : rf.sectors[k] = rf.chunks[i]

\* C17 as stated: on open the index slot of an entry is left empty iff the
\* entry has offset == 0 or count == 0, and every other entry populates
\* chunks[i] with Sector(offset, count) and is inserted into sectors.
C17_Original ==
    Opened =>
        \A i \in Slots :
            IF TableAt(file, i).offset = 0 \/ TableAt(file, i).count = 0
            THEN rf.chunks[i] = None
            ELSE Populated(i)

\* C17 amended: on open the index slot of an entry is left empty iff the
\* entry has offset < 2 or count == 0, and every other entry (offset >= 2
\* with count >= 1) populates chunks[i] and is inserted into sectors.
C17_HeaderEntries ==
    Opened =>
        \A i \in Slots :
            IF TableAt(file, i).offset < 2 \/ TableAt(file, i).count = 0
            THEN rf.chunks[i] = None
            ELSE Populated(i)

\* a file with an entry on page 1 and an entry on a data page was opened
C17_Witness ==
    /\ Opened
    /\ \E i \in Slots : TableAt(file, i) = Entry(1, 1)
    /\ \E i \in Slots : TableAt(file, i) = Entry(3, 2)

(***************************************************************************)
(* C18  The file stays a region file                                       *)
(***************************************************************************)
\* C18: a regular file of valid size still has a size that is a multiple
\* of 4096 and at least 8192 after any write_chunk_tag, write_sector,
\* write_timestamp or delete_sector call, whether it returns or raises, so
\* a new RegionFile can be opened on it.
C18_FileStaysValid ==
    [][(/\ last'.op \in { "write_chunk_tag", "write_sector",
                          "write_timestamp", "delete_sector" }
        /\ IsFile(file) /\ ~InvalidSize(file.size)) =>
          (~InvalidSize(file'.size) /\ OpenOutcome(file') = "ok")]_vars

(***************************************************************************)
(* C19  Other slots are left alone                                         *)
(***************************************************************************)
\* C19: write_chunk_tag, write_sector, delete_sector and write_timestamp on
\* slot s leave, for every other slot t, the table entry of t, the
\* timestamp of t, the index entry chunks[t] and the bytes read_chunk_raw
\* returns for t unchanged.
C19_Frame ==
    [][last'.op \in { "write_chunk_tag", "write_sector",
                      "write_timestamp", "delete_sector" } =>
          \A t \in Slots :
              t # last'.slot =>
                  /\ TableAt(file', t) = TableAt(file, t)
                  /\ StampAt(file', t) = StampAt(file, t)
                  /\ ChunkAt(rf', t) = ChunkAt(rf, t)
                  /\ ReadChunkRaw(file', SlotX(t), SlotZ(t)) =
                        ReadChunkRaw(file, SlotX(t), SlotZ(t))]_vars

(***************************************************************************)
(* C20  Reopening                                                          *)
(***************************************************************************)
\* C20: after write_chunk_tag or delete_sector has returned, constructing a
\* new RegionFile on the same path succeeds and yields an index equal slot
\* by slot to the index of the object and a sectors list equal to its
\* sectors.
C20_ReopenEqual ==
    [][(/\ last'.op \in { "write_chunk_tag", "delete_sector" }
        /\ last'.out = "ok"
        /\ rf.hasSectors /\ Parsed(file) = rf) =>
          (OpenOutcome(file') = "ok" /\ Parsed(file') = rf')]_vars

====
